---------------------------- MODULE Spec2Model ----------------------------
(***************************************************************************)
(* A model of models/preprocess.py: the corpus iterator Dataset.__iter__,  *)
(* the token encoder Processor.fit, the batching generator batch_iter, the *)
(* padding routines _pad_sequences / pad_sequences and the chunk extractor *)
(* get_chunk_type / get_chunks.                                            *)
(*                                                                         *)
(* Python strings are sequences of one-character strings, so that split,   *)
(* lower and the numeric classification are computed and not assumed.      *)
(* Python lists and tuples are sequences; indices of the source are        *)
(* 0-based and are kept 0-based in the state (seq[i] of the source is      *)
(* seq[i + 1] here).  A dict is the sequence of its (key, value) items in  *)
(* insertion order.  Every component is a sequential routine; each has its *)
(* own program counter and its own specification, in which the variables   *)
(* of the other components stay at their idle value.                       *)
(***************************************************************************)
EXTENDS Integers, Sequences, FiniteSets, TLC

VARIABLES
    \* get_chunks
    tags, seq, default, idx_to_tag, chunks, chunk_type, chunk_start, i, gc_pc,
    orig,
    \* pad_sequences
    sequences, max_length, max_length_word, pad_tok, nlevels, call,
    sequence_padded, sequence_length, ps_k, ps_pc,
    \* batch_iter
    dataset, batch_size, batch_x, batch_y, bi_k, batches, bi_pc,
    \* Processor.fit
    self, fit_arg, word, char_ids, fit_ret, fit_pc,
    \* Dataset.__iter__
    file, tag_idx, max_iter, word_processor, tag_processor, niter, words,
    ds_tags, ds_k, yielded, ds_pc

gcVars == <<tags, seq, default, idx_to_tag, chunks, chunk_type, chunk_start,
            i, gc_pc, orig>>

psVars == <<sequences, max_length, max_length_word, pad_tok, nlevels, call,
            sequence_padded, sequence_length, ps_k, ps_pc>>

biVars == <<dataset, batch_size, batch_x, batch_y, bi_k, batches, bi_pc>>

fitVars == <<self, fit_arg, word, char_ids, fit_ret, fit_pc>>

dsVars == <<file, tag_idx, max_iter, word_processor, tag_processor, niter, words,
            ds_tags, ds_k, yielded, ds_pc>>

vars == <<gcVars, psVars, biVars, fitVars, dsVars>>

\* What each component leaves alone.
notGc == <<psVars, biVars, fitVars, dsVars>>

notPs == <<gcVars, biVars, fitVars, dsVars>>

notBi == <<gcVars, psVars, fitVars, dsVars>>

notFit == <<gcVars, psVars, biVars, dsVars>>

notDs == <<gcVars, psVars, biVars, fitVars>>

-----------------------------------------------------------------------------
(* General helpers on sequences.                                           *)

Min(a, b) == IF a < b THEN a ELSE b

Max(a, b) == IF a > b THEN a ELSE b

\* All sequences over S of length 0..n.
SeqsUpTo(S, n) == UNION {[1..m -> S] : m \in 0..n}

\* Python's None where the source holds a string or nothing.
NoneType == <<"None">>

\* An optional integer argument: None is <<>>, the integer n is <<n>>.
None == <<>>

Some(n) == <<n>>

\* [x] * n, empty when n <= 0.
Repeat(x, n) == [j \in 1..n |-> x]

\* s[:n] of a list.
Slice(s, n) ==
    IF n >= 0 THEN SubSeq(s, 1, Min(n, Len(s))) ELSE SubSeq(s, 1, Max(Len(s) + n, 0))

\* max(map(lambda x: len(x), seqs)) of a non-empty list.
MaxLenOf(seqs) ==
    CHOOSE m \in {Len(seqs[k]) : k \in DOMAIN seqs} :
        \A k \in DOMAIN seqs : Len(seqs[k]) <= m

-----------------------------------------------------------------------------
(* Bounds of the model.                                                    *)

\* Longest tag-id sequence handed to get_chunks.
MaxSeqLen == 4

\* Tag ids range over 0..MaxTagId.
MaxTagId == 5

\* Longest sequence handed to single-level padding.
MaxLen == 2

\* Most words of a sentence and most characters of a word handed to
\* two-level padding.
MaxWords == 2

MaxChars == 1

\* Given target lengths range over 0..MaxTarget.
MaxTarget == 3

\* Longest word handed to Processor.fit.
MaxWordLen == 3

\* Most sentences of a batch_iter source, and the largest batch size.
MaxSentences == 5

MaxBatch == 3

\* Most lines of a corpus file, and the largest max_iter.
MaxLines == 4

MaxIter == 2

-----------------------------------------------------------------------------
(* The idle value of each component's variables: component c is the one    *)
(* that runs (1 get_chunks, 2 pad_sequences, 3 batch_iter, 4 Processor.fit, *)
(* 5 Dataset.__iter__).                                                    *)

gcIdle ==
    /\ tags = <<>> /\ seq = <<>> /\ default = -1 /\ idx_to_tag = <<>>
    /\ chunks = <<>> /\ chunk_type = NoneType /\ chunk_start = -1 /\ i = 0
    /\ gc_pc = "idle" /\ orig = <<>>

psIdle ==
    /\ sequences = <<>> /\ max_length = None /\ max_length_word = None
    /\ pad_tok = 0 /\ nlevels = 0 /\ call = <<>>
    /\ sequence_padded = <<>> /\ sequence_length = <<>> /\ ps_k = 0
    /\ ps_pc = "idle"

biIdle ==
    /\ dataset = <<>> /\ batch_size = 0 /\ batch_x = <<>> /\ batch_y = <<>>
    /\ bi_k = 0 /\ batches = <<>> /\ bi_pc = "idle"

fitIdle ==
    /\ self = <<>> /\ fit_arg = <<>> /\ word = <<>> /\ char_ids = <<>>
    /\ fit_ret = <<>> /\ fit_pc = "idle"

dsIdle ==
    /\ file = <<>> /\ tag_idx = 0 /\ max_iter = None /\ word_processor = None
    /\ tag_processor = None /\ niter = 0 /\ words = <<>> /\ ds_tags = <<>>
    /\ ds_k = 0 /\ yielded = <<>> /\ ds_pc = "idle"

OthersIdle(c) ==
    /\ c # 1 => gcIdle
    /\ c # 2 => psIdle
    /\ c # 3 => biIdle
    /\ c # 4 => fitIdle
    /\ c # 5 => dsIdle

-----------------------------------------------------------------------------
(* Tag names and tag mappings.                                             *)

NONE == <<"O">>

B_PER == <<"B", "-", "P", "E", "R">>

I_PER == <<"I", "-", "P", "E", "R">>

B_LOC == <<"B", "-", "L", "O", "C">>

I_LOC == <<"I", "-", "L", "O", "C">>

PER == <<"P", "E", "R">>

LOC == <<"L", "O", "C">>

\* An entity type that itself holds a '-'.
A_X == <<"A", "-", "X">>

\* A dict as its items in insertion order.
ConllTags == <<<<NONE, 0>>, <<B_PER, 1>>, <<I_PER, 2>>, <<B_LOC, 3>>, <<I_LOC, 4>>>>

\* The mapping of get_chunks' docstring: no "O", no tag with id 0.
DocTags == <<<<B_PER, 4>>, <<I_PER, 5>>, <<B_LOC, 3>>>>

DocSeq == <<4, 5, 0, 3>>

\* "O" is not id 0; a tag without '-', a tag whose type holds a '-'.
MixedTags == <<<<PER, 0>>, <<NONE, 1>>, <<<<"B", "-">> \o A_X, 2>>, <<<<"I", "-">> \o A_X, 3>>,
               <<B_PER, 5>>>>

\* Two names share id 1, "O" shares id 0 with a B- tag.
SharedTags == <<<<B_LOC, 0>>, <<NONE, 0>>, <<B_PER, 1>>, <<I_PER, 2>>, <<I_LOC, 1>>>>

TagMaps == {ConllTags, DocTags, MixedTags, SharedTags}

HasKey(d, key) == \E k \in DOMAIN d : d[k][1] = key

\* d[key] of a dict that holds key.
Get(d, key) == d[CHOOSE k \in DOMAIN d : d[k][1] = key][2]

Values(d) == {d[k][2] : k \in DOMAIN d}

\* {idx: tag for tag, idx in tags.items()}: a later item overwrites an earlier
\* one with the same idx.
InvertDict(d) ==
    [idx \in Values(d) |->
        d[CHOOSE k \in DOMAIN d :
            /\ d[k][2] = idx
            /\ \A m \in DOMAIN d : d[m][2] = idx => m <= k][1]]

\* str.split('-'): the pieces between the '-' characters, at least one piece.
RECURSIVE Split(_)
Split(s) ==
    IF \A k \in DOMAIN s : s[k] # "-"
    THEN <<s>>
    ELSE LET k == CHOOSE j \in DOMAIN s :
                      s[j] = "-" /\ \A m \in 1..(j - 1) : s[m] # "-"
         IN  <<SubSeq(s, 1, k - 1)>> \o Split(SubSeq(s, k + 1, Len(s)))

\* A mutant of get_chunk_type: the type read from the first piece.
get_chunk_type_first(tok, idx2tag) ==
    LET parts == Split(idx2tag[tok]) IN <<parts[1], parts[1]>>

\* get_chunk_type: (tag_class, tag_type) = (first piece, last piece).
get_chunk_type(tok, idx2tag) ==
    LET tag_name == idx2tag[tok]
        parts == Split(tag_name)
    IN  <<parts[1], parts[Len(parts)]>>

-----------------------------------------------------------------------------
(* get_chunks(seq, tags).                                                  *)

\* A mutant of StartsNewChunk: the begin marker is ignored.
StartsNewChunkTypeOnly(tok_chunk_class, tok_chunk_type) ==
    tok_chunk_type # chunk_type

\* The elif of the source: the open chunk ends and a new one starts.
StartsNewChunk(tok_chunk_class, tok_chunk_type) ==
    tok_chunk_type # chunk_type \/ tok_chunk_class = <<"B">>

\* A mutant of LastChunk: the chunk open at the end closes one position early.
LastChunkShort == <<chunk_type, chunk_start, Len(seq) - 1>>

\* The chunk appended after the loop.
LastChunk == <<chunk_type, chunk_start, Len(seq)>>

\* default = tags[NONE] (a KeyError when the mapping has no "O"), the inverted
\* mapping and the empty scan state.
gc_Begin ==
    /\ gc_pc = "begin"
    /\ IF HasKey(tags, NONE)
       THEN /\ default' = Get(tags, NONE)
            /\ idx_to_tag' = InvertDict(tags)
            /\ gc_pc' = "scan"
       ELSE /\ gc_pc' = "error"
            /\ UNCHANGED <<default, idx_to_tag>>
    /\ UNCHANGED <<tags, seq, chunks, chunk_type, chunk_start, i, orig>>
    /\ UNCHANGED notGc

\* One iteration of "for i, tok in enumerate(seq)".
gc_Scan ==
    /\ gc_pc = "scan"
    /\ i < Len(seq)
    /\ LET tok == seq[i + 1] IN
       IF tok = default /\ chunk_type # NoneType
       THEN /\ chunks' = Append(chunks, <<chunk_type, chunk_start, i>>)
            /\ chunk_type' = NoneType
            /\ chunk_start' = -1
            /\ i' = i + 1
            /\ UNCHANGED gc_pc
       ELSE IF tok # default
       THEN IF tok \notin DOMAIN idx_to_tag
            THEN \* idx_to_tag[tok] raises KeyError
                 /\ gc_pc' = "error"
                 /\ UNCHANGED <<chunks, chunk_type, chunk_start, i>>
            ELSE LET ct == get_chunk_type(tok, idx_to_tag)
                     tok_chunk_class == ct[1]
                     tok_chunk_type == ct[2]
                 IN  /\ IF chunk_type = NoneType
                        THEN /\ chunk_type' = tok_chunk_type
                             /\ chunk_start' = i
                             /\ UNCHANGED chunks
                        ELSE IF StartsNewChunk(tok_chunk_class, tok_chunk_type)
                        THEN /\ chunks' = Append(chunks, <<chunk_type, chunk_start, i>>)
                             /\ chunk_type' = tok_chunk_type
                             /\ chunk_start' = i
                        ELSE UNCHANGED <<chunks, chunk_type, chunk_start>>
                     /\ i' = i + 1
                     /\ UNCHANGED gc_pc
       ELSE /\ i' = i + 1
            /\ UNCHANGED <<chunks, chunk_type, chunk_start, gc_pc>>
    /\ UNCHANGED <<tags, seq, default, idx_to_tag, orig>>
    /\ UNCHANGED notGc

\* After the loop: the open chunk, if any, closes at len(seq); return chunks.
gc_Return ==
    /\ gc_pc = "scan"
    /\ i = Len(seq)
    /\ chunks' = IF chunk_type # NoneType THEN Append(chunks, LastChunk) ELSE chunks
    /\ gc_pc' = "done"
    /\ UNCHANGED <<tags, seq, default, idx_to_tag, chunk_type, chunk_start, i, orig>>
    /\ UNCHANGED notGc

gcStart ==
    /\ default = -1
    /\ idx_to_tag = <<>>
    /\ chunks = <<>>
    /\ chunk_type = NoneType
    /\ chunk_start = -1
    /\ i = 0
    /\ gc_pc = "begin"

\* get_chunks called with any of the mappings and any id sequence.
InitChunks ==
    /\ tags \in TagMaps
    /\ seq \in SeqsUpTo(0..MaxTagId, MaxSeqLen)
    /\ orig = <<>>
    /\ gcStart
    /\ OthersIdle(1)

NextChunks == gc_Begin \/ gc_Scan \/ gc_Return

SpecChunks == InitChunks /\ [][NextChunks]_vars


-----------------------------------------------------------------------------
(* _pad_sequences and pad_sequences.                                       *)

\* The elements single-level padding is run on.
Items == {1, 2}

\* The characters two-level padding is run on.
Chars == {1}

\* seq_ of _pad_sequences' loop: seq clipped to max_length, then filled.
PaddedSeq(s, tok, length) ==
    IF Len(s) < length
    THEN Slice(s, length) \o Repeat(tok, Max(length - Len(s), 0))
    ELSE Slice(s, length)

\* A mutant of ClippedLength: the length before clipping.
FullLength(s, length) == Len(s)

\* min(len(seq), max_length), the length _pad_sequences reports.
ClippedLength(s, length) == Min(Len(s), length)

\* _pad_sequences(sequences, pad_tok, max_length): (sequence_padded,
\* sequence_length).
_pad_sequences(seqs, tok, length) ==
    <<[k \in DOMAIN seqs |-> PaddedSeq(seqs[k], tok, length)],
      [k \in DOMAIN seqs |-> ClippedLength(seqs[k], length)]>>

\* A mutant of FillerWord: the filler is one pad value, whatever the word length.
FillerWordOfOne(tok, length) == <<tok>>

\* [pad_tok] * max_length_word, the word a short sentence is filled with.
FillerWord(tok, length) == Repeat(tok, length)

\* nlevels == 1: the target defaults to the longest sequence (max() of an empty
\* list raises ValueError), then _pad_sequences.
ps_Level1 ==
    /\ ps_pc = "start"
    /\ nlevels = 1
    /\ IF max_length = None /\ sequences = <<>>
       THEN /\ ps_pc' = "error"
            /\ UNCHANGED <<max_length, sequence_padded, sequence_length>>
       ELSE LET length == IF max_length = None THEN MaxLenOf(sequences) ELSE max_length[1]
                r == _pad_sequences(sequences, pad_tok, length)
            IN  /\ max_length' = Some(length)
                /\ sequence_padded' = r[1]
                /\ sequence_length' = r[2]
                /\ ps_pc' = "done"
    /\ UNCHANGED <<sequences, max_length_word, pad_tok, nlevels, call, ps_k>>
    /\ UNCHANGED notPs

\* nlevels == 2: the word length defaults to the longest word of all sentences
\* (max() raises ValueError on no sentence and on a sentence of no word).
ps_WordLength ==
    /\ ps_pc = "start"
    /\ nlevels = 2
    /\ IF max_length_word # None
       THEN /\ ps_pc' = "words"
            /\ UNCHANGED max_length_word
       ELSE IF sequences = <<>> \/ \E k \in DOMAIN sequences : sequences[k] = <<>>
       THEN /\ ps_pc' = "error"
            /\ UNCHANGED max_length_word
       ELSE /\ max_length_word' =
                 Some(MaxLenOf([k \in DOMAIN sequences |->
                                   Repeat(0, MaxLenOf(sequences[k]))]))
            /\ ps_pc' = "words"
    /\ UNCHANGED <<sequences, max_length, pad_tok, nlevels, call, sequence_padded,
                   sequence_length, ps_k>>
    /\ UNCHANGED notPs

\* One iteration of "for seq in sequences": the words of one sentence padded.
ps_PadWords ==
    /\ ps_pc = "words"
    /\ ps_k < Len(sequences)
    /\ LET r == _pad_sequences(sequences[ps_k + 1], pad_tok, max_length_word[1])
       IN  /\ sequence_padded' = Append(sequence_padded, r[1])
           /\ sequence_length' = Append(sequence_length, r[2])
    /\ ps_k' = ps_k + 1
    /\ UNCHANGED <<sequences, max_length, max_length_word, pad_tok, nlevels, call, ps_pc>>
    /\ UNCHANGED notPs

\* After the loop: the sentence length defaults to the longest sentence; the
\* sentences are filled with filler words and their length lists with 0.
ps_Sentences ==
    /\ ps_pc = "words"
    /\ ps_k = Len(sequences)
    /\ IF max_length = None /\ sequences = <<>>
       THEN /\ ps_pc' = "error"
            /\ UNCHANGED <<sequence_padded, sequence_length>>
       ELSE LET max_length_sentence ==
                    IF max_length = None THEN MaxLenOf(sequences) ELSE max_length[1]
            IN  /\ sequence_padded' =
                       _pad_sequences(sequence_padded,
                                      FillerWord(pad_tok, max_length_word[1]),
                                      max_length_sentence)[1]
                /\ sequence_length' =
                       _pad_sequences(sequence_length, 0, max_length_sentence)[1]
                /\ ps_pc' = "done"
    /\ UNCHANGED <<sequences, max_length, max_length_word, pad_tok, nlevels, call, ps_k>>
    /\ UNCHANGED notPs

Targets == {None} \cup {Some(n) : n \in 0..MaxTarget}

\* The sentences of two-level padding: lists of words, a word a list of characters.
Sentences == SeqsUpTo(SeqsUpTo(Chars, MaxChars), MaxWords)

\* pad_sequences called with one or two levels, on up to two sequences.
InitPad ==
    /\ nlevels \in {1, 2}
    /\ IF nlevels = 1
       THEN /\ sequences \in SeqsUpTo(SeqsUpTo(Items, MaxLen), 2)
            /\ pad_tok \in {0, 1}
            /\ max_length_word = None
       ELSE /\ sequences \in SeqsUpTo(Sentences, 2)
            /\ pad_tok = 0
            /\ max_length_word \in Targets
    /\ max_length \in Targets
    /\ call = [max_length |-> max_length, max_length_word |-> max_length_word]
    /\ sequence_padded = <<>>
    /\ sequence_length = <<>>
    /\ ps_k = 0
    /\ ps_pc = "start"
    /\ OthersIdle(2)

NextPad == ps_Level1 \/ ps_WordLength \/ ps_PadWords \/ ps_Sentences

SpecPad == InitPad /\ [][NextPad]_vars

-----------------------------------------------------------------------------
(* get_chunks on an encoded chunk list.                                    *)

\* The entity types of the encoded chunk lists, in the order of their tags.
TypeLabels == <<PER, LOC, A_X>>

B_(type) == <<"B", "-">> \o type

I_(type) == <<"I", "-">> \o type

\* {"O": 0, "B-T1": 1, "I-T1": 2, "B-T2": 3, ...}
BioTags ==
    [k \in 1..(2 * Len(TypeLabels) + 1) |->
        IF k = 1 THEN <<NONE, 0>>
        ELSE IF k % 2 = 0 THEN <<B_(TypeLabels[k \div 2]), k - 1>>
        ELSE <<I_(TypeLabels[(k - 1) \div 2]), k - 1>>]

\* The lists of chunks (type, start, end) with non-empty spans inside
\* from..n, in increasing order and not overlapping.
RECURSIVE ChunkLists(_, _)
ChunkLists(from, n) ==
    {<<>>} \cup
    UNION {UNION {{<<<<TypeLabels[t], s, e>>>> \o rest : rest \in ChunkLists(e, n)} :
                    t \in DOMAIN TypeLabels, e \in (s + 1)..n} :
             s \in from..(n - 1)}

\* B-TYPE at each chunk's start, I-TYPE inside it, "O" elsewhere.
Encode(cs, n) ==
    [p \in 1..n |->
        IF \E k \in DOMAIN cs : cs[k][2] = p - 1
        THEN Get(BioTags, B_(cs[CHOOSE k \in DOMAIN cs : cs[k][2] = p - 1][1]))
        ELSE IF \E k \in DOMAIN cs : cs[k][2] < p - 1 /\ p - 1 < cs[k][3]
        THEN Get(BioTags, I_(cs[CHOOSE k \in DOMAIN cs :
                                    cs[k][2] < p - 1 /\ p - 1 < cs[k][3]][1]))
        ELSE Get(BioTags, NONE)]

\* get_chunks called on the encoding of a chunk list.
InitRoundTrip ==
    /\ tags = BioTags
    /\ \E n \in 0..MaxSeqLen :
          /\ orig \in ChunkLists(0, n)
          /\ seq = Encode(orig, n)
    /\ gcStart
    /\ OthersIdle(1)

SpecRoundTrip == InitRoundTrip /\ [][NextChunks]_vars

-----------------------------------------------------------------------------
(* Processor: load_vocab, is_digit and fit.                                *)

UNK == <<"<", "U", "N", "K", ">">>

NUM == <<"<", "N", "U", "M", ">">>

PAD == <<"<", "P", "A", "D", ">">>

\* The characters of the words fit is run on; "HALF" stands for the single
\* character U+00BD (vulgar fraction one half), which has a numeric value and
\* is no decimal digit.  No word over them spells inf, nan, an exponent, an
\* underscore or white space.
Alphabet == {"a", "A", "1", ".", ",", "-", "HALF"}

Digits == {"0", "1", "2", "3", "4", "5", "6", "7", "8", "9"}

\* str.lower() on the alphabet's characters.
Lower(s) == [k \in DOMAIN s |-> IF s[k] = "A" THEN "a" ELSE s[k]]

IsSign(c) == c \in {"-", "+"}

\* s without an optional leading sign.
Unsigned(s) == IF s # <<>> /\ IsSign(s[1]) THEN SubSeq(s, 2, Len(s)) ELSE s

AllDigits(s) == s # <<>> /\ \A k \in DOMAIN s : s[k] \in Digits

\* float(s) succeeds: an optional sign, then digits with at most one '.' and
\* at least one digit.
IsFloat(s) ==
    LET b == Unsigned(s) IN
    /\ \A k \in DOMAIN b : b[k] \in Digits \cup {"."}
    /\ Cardinality({k \in DOMAIN b : b[k] = "."}) <= 1
    /\ \E k \in DOMAIN b : b[k] \in Digits

\* unicodedata.numeric(s) succeeds: one character, with a numeric value.
IsNumericChar(s) == Len(s) = 1 /\ s[1] \in Digits \cup {"HALF"}

\* re '^[-+]?[0-9]+,[0-9]+$' matches s.
IsCommaNumber(s) ==
    LET b == Unsigned(s) IN
    \E k \in DOMAIN b :
        /\ b[k] = ","
        /\ AllDigits(SubSeq(b, 1, k - 1))
        /\ AllDigits(SubSeq(b, k + 1, Len(b)))

is_digit(s) == IsFloat(s) \/ IsNumericChar(s) \/ IsCommaNumber(s)

\* load_vocab: d[word] = idx over the file's lines, a repeated word keeping
\* its last line index.
load_vocab(lines) ==
    [w \in {lines[k] : k \in DOMAIN lines} |->
        (CHOOSE k \in DOMAIN lines :
            lines[k] = w /\ \A m \in DOMAIN lines : lines[m] = w => m <= k) - 1]

\* "self.char_vocab is not None and self.use_chars is True"
WithChars(p) == p.char_vocab # None /\ p.use_chars

\* Step 0 of fit: the ids of the characters of the word as given, characters
\* out of the character vocabulary dropped.
CharIdsOf(p, w) ==
    IF WithChars(p)
    THEN LET cv == p.char_vocab[1]
             known == SelectSeq(w, LAMBDA c : c \in DOMAIN cv)
         IN  [k \in DOMAIN known |-> cv[known[k]]]
    ELSE <<>>

\* Step 1 of fit: lowercase if asked, then <NUM> for a numeric word.
PreProcess(p, w) ==
    LET l == IF p.lowercase THEN Lower(w) ELSE w
    IN  IF is_digit(l) THEN NUM ELSE l

\* A mutant of UnknownId: the id of <PAD> stands in for an unknown word.
UnknownIdPad(p) == p.word_vocab[PAD]

\* self.word_vocab[UNK]
UnknownId(p) == p.word_vocab[UNK]

\* Step 3 of fit: (char_ids, word) with character features, else word.  The
\* two shapes are one record here: chars is None for the bare id.
FitValue(p, cs, w) == [chars |-> IF WithChars(p) THEN Some(cs) ELSE None, word |-> w]

\* fit(word) as one call: ok with the returned value, or the raised error.
FitCall(p, w) ==
    LET cs == CharIdsOf(p, w)
        w1 == PreProcess(p, w)
    IN  IF w1 \in DOMAIN p.word_vocab
        THEN [ok |-> TRUE, ret |-> FitValue(p, cs, p.word_vocab[w1])]
        ELSE IF p.allow_unk /\ UNK \in DOMAIN p.word_vocab
        THEN [ok |-> TRUE, ret |-> FitValue(p, cs, UnknownId(p))]
        ELSE [ok |-> FALSE, ret |-> <<>>]

fit_Chars ==
    /\ fit_pc = "chars"
    /\ char_ids' = CharIdsOf(self, word)
    /\ fit_pc' = "pre"
    /\ UNCHANGED <<self, fit_arg, word, fit_ret>>
    /\ UNCHANGED notFit

fit_PreProcess ==
    /\ fit_pc = "pre"
    /\ word' = PreProcess(self, word)
    /\ fit_pc' = "lookup"
    /\ UNCHANGED <<self, fit_arg, char_ids, fit_ret>>
    /\ UNCHANGED notFit

\* Step 2 of fit: the word's id, the id of <UNK> (a KeyError when the
\* vocabulary has none), or the exception "Unknown key is not allowed."
fit_Lookup ==
    /\ fit_pc = "lookup"
    /\ IF word \in DOMAIN self.word_vocab
       THEN word' = self.word_vocab[word] /\ fit_pc' = "ret"
       ELSE IF self.allow_unk
       THEN IF UNK \in DOMAIN self.word_vocab
            THEN word' = UnknownId(self) /\ fit_pc' = "ret"
            ELSE fit_pc' = "keyerror" /\ UNCHANGED word
       ELSE fit_pc' = "raised" /\ UNCHANGED word
    /\ UNCHANGED <<self, fit_arg, char_ids, fit_ret>>
    /\ UNCHANGED notFit

fit_Return ==
    /\ fit_pc = "ret"
    /\ fit_ret' = FitValue(self, char_ids, word)
    /\ fit_pc' = "done"
    /\ UNCHANGED <<self, fit_arg, word, char_ids>>
    /\ UNCHANGED notFit

\* Vocabulary files, one word a line.
WordVocabFull == <<PAD, UNK, NUM, <<"a">>, <<"a", ".">>, <<"A">>, <<"1">>>>

\* No <NUM>, and a word on two lines.
WordVocabNoNum == <<PAD, UNK, <<"a">>, <<"1", ",", "1">>, <<"a">>>>

\* No <UNK>: for a processor that does not allow unknown words.
WordVocabNoUnk == <<PAD, NUM, <<"a">>>>

CharVocab == <<"a", "A", "1">>

\* Processor(...): the vocabularies loaded, the flags kept.  A processor that
\* allows unknown words has a vocabulary that holds <UNK>.
Processors ==
    {p \in [word_vocab : {load_vocab(WordVocabFull), load_vocab(WordVocabNoNum),
                          load_vocab(WordVocabNoUnk)},
            char_vocab : {None, Some(load_vocab(CharVocab))},
            lowercase : BOOLEAN,
            use_chars : BOOLEAN,
            allow_unk : BOOLEAN] :
        /\ p.allow_unk => UNK \in DOMAIN p.word_vocab
        /\ p.char_vocab = None => p.use_chars}

\* fit called on any word over the alphabet.
InitFit ==
    /\ self \in Processors
    /\ fit_arg \in SeqsUpTo(Alphabet, MaxWordLen)
    /\ word = fit_arg
    /\ char_ids = <<>>
    /\ fit_ret = <<>>
    /\ fit_pc = "chars"
    /\ OthersIdle(4)

NextFit == fit_Chars \/ fit_PreProcess \/ fit_Lookup \/ fit_Return

SpecFit == InitFit /\ [][NextFit]_vars

-----------------------------------------------------------------------------
(* batch_iter(dataset, batch_size).                                        *)

\* An encoded token is a tuple when it carries character ids.
IsTuple(tok) == tok.chars # None

\* zip(*x) of a sentence of (char_ids, word) tuples: the character-id lists of
\* its tokens, then the word ids of its tokens.
Zip(x) == <<[k \in DOMAIN x |-> x[k].chars[1]], [k \in DOMAIN x |-> x[k].word]>>

\* A mutant of BatchFull: the batch is taken for full one element early.
BatchFullEarly == Len(batch_x) + 1 = batch_size

\* "len(batch_x) == batch_size"
BatchFull == Len(batch_x) = batch_size

\* One iteration of "for x, y in dataset": a full batch is yielded and a new
\* one started, then the sentence is added (transposed when its first token
\* is a tuple).
bi_Sentence ==
    /\ bi_pc = "iter"
    /\ bi_k < Len(dataset)
    /\ LET x == dataset[bi_k + 1][1]
           y == dataset[bi_k + 1][2]
           x_ == IF IsTuple(x[1]) THEN Zip(x) ELSE x
       IN  IF BatchFull
           THEN /\ batches' = Append(batches, <<batch_x, batch_y>>)
                /\ batch_x' = <<x_>>
                /\ batch_y' = <<y>>
           ELSE /\ batch_x' = Append(batch_x, x_)
                /\ batch_y' = Append(batch_y, y)
                /\ UNCHANGED batches
    /\ bi_k' = bi_k + 1
    /\ UNCHANGED <<dataset, batch_size, bi_pc>>
    /\ UNCHANGED notBi

\* After the loop: what is left is yielded, if anything.
bi_End ==
    /\ bi_pc = "iter"
    /\ bi_k = Len(dataset)
    /\ batches' = IF Len(batch_x) # 0 THEN Append(batches, <<batch_x, batch_y>>) ELSE batches
    /\ bi_pc' = "done"
    /\ UNCHANGED <<dataset, batch_size, batch_x, batch_y, bi_k>>
    /\ UNCHANGED notBi

Id(w) == [chars |-> None, word |-> w]

\* The (words, tags) pairs a Dataset yields: sentences of bare word ids and a
\* sentence of (char_ids, word) tuples, none of them empty.
SentencePool ==
    {<<<<Id(3)>>, <<0>>>>,
     <<<<Id(4), Id(1)>>, <<1, 2>>>>,
     <<<<[chars |-> Some(<<0, 1>>), word |-> 3], [chars |-> Some(<<>>), word |-> 1]>>,
       <<0, 0>>>>}

InitBatch ==
    /\ dataset \in SeqsUpTo(SentencePool, MaxSentences)
    /\ batch_size \in 1..MaxBatch
    /\ batch_x = <<>>
    /\ batch_y = <<>>
    /\ bi_k = 0
    /\ batches = <<>>
    /\ bi_pc = "iter"
    /\ OthersIdle(3)

NextBatch == bi_Sentence \/ bi_End

SpecBatch == InitBatch /\ [][NextBatch]_vars

-----------------------------------------------------------------------------
(* Dataset.__iter__.                                                       *)

DOCSTART == <<"-", "D", "O", "C", "S", "T", "A", "R", "T", "-">>

\* A line of the file, stripped, as its fields between the delimiters; the
\* blank line is <<>>.
BlankLine == <<>>

DocLine == <<DOCSTART, <<"-", "X", "-">>, NONE>>

\* The marker with more text after it, still a boundary.
DocLineLong == <<DOCSTART \o <<"1">>>>

TokLine2 == <<<<"a">>, B_PER>>

TokLine3 == <<<<"A">>, <<"1">>, NONE>>

LinePool == {BlankLine, DocLine, DocLineLong, TokLine2, TokLine3}

\* line.startswith("-DOCSTART-"): the marker holds no delimiter, so it lies
\* in the first field.
StartsWithDocstart(line) ==
    /\ Len(line[1]) >= Len(DOCSTART)
    /\ SubSeq(line[1], 1, Len(DOCSTART)) = DOCSTART

\* "len(line) == 0 or line.startswith("-DOCSTART-")"
IsBoundary(line) == line = <<>> \/ StartsWithDocstart(line)

\* A mutant of OverMaxIter: the last allowed sentence is cut too.
OverMaxIterEarly(n) == max_iter # None /\ n >= max_iter[1]

\* "self.max_iter is not None and niter > self.max_iter"
OverMaxIter(n) == max_iter # None /\ n > max_iter[1]

\* processor.fit(x) when there is a processor, else x.
Processed(proc, x) ==
    IF proc = None THEN [ok |-> TRUE, ret |-> x] ELSE FitCall(proc[1], x)

\* One iteration of "for line in f".
ds_Line ==
    /\ ds_pc = "iter"
    /\ ds_k < Len(file)
    /\ LET line == file[ds_k + 1] IN
       IF IsBoundary(line)
       THEN IF Len(words) # 0
            THEN /\ niter' = niter + 1
                 /\ IF OverMaxIter(niter + 1)
                    THEN \* break: the generator ends
                         /\ ds_pc' = "done"
                         /\ UNCHANGED <<words, ds_tags, yielded, ds_k>>
                    ELSE /\ yielded' = Append(yielded, <<words, ds_tags>>)
                         /\ words' = <<>>
                         /\ ds_tags' = <<>>
                         /\ ds_k' = ds_k + 1
                         /\ UNCHANGED ds_pc
            ELSE /\ ds_k' = ds_k + 1
                 /\ UNCHANGED <<niter, words, ds_tags, yielded, ds_pc>>
       ELSE IF tag_idx >= Len(line)
       THEN \* ls[self.tag_idx] raises IndexError
            /\ ds_pc' = "error"
            /\ UNCHANGED <<niter, words, ds_tags, yielded, ds_k>>
       ELSE LET w == Processed(word_processor, line[1])
                t == Processed(tag_processor, line[tag_idx + 1])
            IN  IF w.ok /\ t.ok
                THEN /\ words' = Append(words, w.ret)
                     /\ ds_tags' = Append(ds_tags, t.ret)
                     /\ ds_k' = ds_k + 1
                     /\ UNCHANGED <<niter, yielded, ds_pc>>
                ELSE \* fit raises
                     /\ ds_pc' = "error"
                     /\ UNCHANGED <<niter, words, ds_tags, yielded, ds_k>>
    /\ UNCHANGED <<file, tag_idx, max_iter, word_processor, tag_processor>>
    /\ UNCHANGED notDs

\* The file is read through: the generator ends.
ds_End ==
    /\ ds_pc = "iter"
    /\ ds_k = Len(file)
    /\ ds_pc' = "done"
    /\ UNCHANGED <<file, tag_idx, max_iter, word_processor, tag_processor, niter,
                   words, ds_tags, ds_k, yielded>>
    /\ UNCHANGED notDs

\* The word processor of the corpus: lowercased words, character ids, no
\* unknown word allowed.
WordProcessor ==
    [word_vocab |-> load_vocab(WordVocabFull), char_vocab |-> Some(load_vocab(CharVocab)),
     lowercase |-> TRUE, use_chars |-> TRUE, allow_unk |-> FALSE]

\* The tag processor: the tag vocabulary only; the tag "1" is unknown to it.
TagProcessor ==
    [word_vocab |-> load_vocab(<<NONE, B_PER, I_PER>>), char_vocab |-> None,
     lowercase |-> FALSE, use_chars |-> FALSE, allow_unk |-> FALSE]

InitDataset ==
    /\ file \in SeqsUpTo(LinePool, MaxLines)
    /\ tag_idx \in {1, 2}
    /\ max_iter \in {None} \cup {Some(n) : n \in 0..MaxIter}
    /\ \/ word_processor = None /\ tag_processor = None
       \/ word_processor = Some(WordProcessor) /\ tag_processor = Some(TagProcessor)
    /\ niter = 0
    /\ words = <<>>
    /\ ds_tags = <<>>
    /\ ds_k = 0
    /\ yielded = <<>>
    /\ ds_pc = "iter"
    /\ OthersIdle(5)

NextDataset == ds_Line \/ ds_End

SpecDataset == InitDataset /\ [][NextDataset]_vars

-----------------------------------------------------------------------------
(* Properties of get_chunks.                                               *)

\* The positions (0-based) inside some chunk of cs.
Covered(cs) ==
    {p \in 0..(Len(seq) - 1) : \E k \in DOMAIN cs : cs[k][2] <= p /\ p < cs[k][3]}

HasDash(s) == \E k \in DOMAIN s : s[k] = "-"

\* C1: for a mapping that holds "O" and a sequence of ids of the mapping,
\* get_chunks returns; the returned chunks are ordered by strictly increasing
\* start, each has 0 <= start < end <= len(seq), consecutive chunks do not
\* overlap, and the chunks cover exactly the positions whose tag id is not the
\* id of "O".
C1_ChunksPartition ==
    /\ (HasKey(tags, NONE) /\ \A k \in DOMAIN seq : seq[k] \in Values(tags))
          => gc_pc # "error"
    /\ gc_pc = "done" =>
           /\ \A k \in DOMAIN chunks :
                 0 <= chunks[k][2] /\ chunks[k][2] < chunks[k][3] /\ chunks[k][3] <= Len(seq)
           /\ \A k \in 1..(Len(chunks) - 1) :
                 chunks[k][2] < chunks[k + 1][2] /\ chunks[k][3] <= chunks[k + 1][2]
           /\ Covered(chunks) = {p \in 0..(Len(seq) - 1) : seq[p + 1] # Get(tags, NONE)}

\* Three chunks, two of them adjacent, one "O" position, one chunk open at the end.
C1_Witness ==
    /\ gc_pc = "done"
    /\ Len(chunks) = 3
    /\ \E k \in 1..2 : chunks[k][3] = chunks[k + 1][2]
    /\ \E k \in DOMAIN seq : seq[k] = default
    /\ chunks[3][3] = Len(seq)

\* C2: with a chunk open and a non-default tag at i, the open chunk closes at i
\* and (type of tag i, i) opens exactly when the decoded type differs from the
\* open chunk's type or the decoded prefix is "B"; otherwise the scan state is
\* unchanged.  ["B-PER","B-PER","O"] gives [("PER",0,1), ("PER",1,2)].
C2_SplitRule ==
    /\ [](tags = ConllTags /\ seq = <<1, 1, 0>> /\ gc_pc = "done"
            => chunks = <<<<PER, 0, 1>>, <<PER, 1, 2>>>>)
    /\ [][(/\ gc_pc = "scan"
           /\ i < Len(seq)
           /\ chunk_type # NoneType
           /\ seq[i + 1] # default
           /\ seq[i + 1] \in DOMAIN idx_to_tag)
          => LET name == Split(idx_to_tag[seq[i + 1]])
                 prefix == name[1]
                 type == name[Len(name)]
             IN  IF type # chunk_type \/ prefix = <<"B">>
                 THEN /\ chunks' = Append(chunks, <<chunk_type, chunk_start, i>>)
                      /\ chunk_type' = type
                      /\ chunk_start' = i
                 ELSE UNCHANGED <<chunks, chunk_type, chunk_start>>]_vars

\* The scan has just split a chunk at a B- tag of the open chunk's own type.
C2_Witness ==
    /\ gc_pc = "scan"
    /\ i = 2
    /\ chunks = <<<<PER, 0, 1>>>>
    /\ chunk_type = PER
    /\ chunk_start = 1
    /\ idx_to_tag[seq[2]] = B_PER
    /\ idx_to_tag[seq[1]] = B_PER

\* C3 as stated: get_chunks on the encoding of any chunk list, with any type
\* labels, returns the chunk list.
C3_RoundTripAnyType == gc_pc = "done" => chunks = orig

\* C3, amended: get_chunks on the encoding of a chunk list whose type labels
\* hold no '-' returns the chunk list.
C3_RoundTripNoDash ==
    (gc_pc = "done" /\ \A k \in DOMAIN orig : ~HasDash(orig[k][1])) => chunks = orig

\* Two adjacent chunks of one type, the first longer than one position.
C3_Witness ==
    /\ gc_pc = "done"
    /\ Len(orig) >= 2
    /\ orig[1][3] = orig[2][2]
    /\ orig[1][1] = orig[2][1]
    /\ orig[1][3] - orig[1][2] >= 2
    /\ \A k \in DOMAIN orig : ~HasDash(orig[k][1])
    /\ chunks = orig

\* C4: the docstring's example call returns [("PER", 0, 2), ("LOC", 3, 4)].
C4_DocstringExample ==
    (tags = DocTags /\ seq = DocSeq /\ gc_pc # "begin") =>
        /\ gc_pc # "error"
        /\ gc_pc = "done" => chunks = <<<<PER, 0, 2>>, <<LOC, 3, 4>>>>

\* C5: for any mapping and any sequence of ids that are all keys of the
\* inverted mapping, get_chunks does not end in an error.
C5_NeverFails ==
    (\A k \in DOMAIN seq : seq[k] \in Values(tags)) => gc_pc # "error"

-----------------------------------------------------------------------------
(* Properties of the padding routines.                                     *)

\* The target a call resolves to: the given one, else the longest input.
TargetOf(given, seqs) == IF given = None THEN MaxLenOf(seqs) ELSE given[1]

\* C6: single-level padding gives every sequence exactly T elements, the first
\* min(len(s), T) those of s and the rest the pad value, and reports the
\* length min(len(s), T); an omitted T is the longest input's length, and a
\* longest input is then returned unchanged.
C6_SingleLevelPadding ==
    (ps_pc = "done" /\ nlevels = 1) =>
        LET T == TargetOf(call.max_length, sequences) IN
        /\ Len(sequence_padded) = Len(sequences)
        /\ Len(sequence_length) = Len(sequences)
        /\ \A k \in DOMAIN sequences :
              LET s == sequences[k]
                  kept == Min(Len(s), T)
              IN  /\ Len(sequence_padded[k]) = T
                  /\ \A j \in 1..kept : sequence_padded[k][j] = s[j]
                  /\ \A j \in (kept + 1)..T : sequence_padded[k][j] = pad_tok
                  /\ sequence_length[k] = kept
                  /\ (call.max_length = None /\ Len(s) = T) => sequence_padded[k] = s

\* One sequence is clipped and one is filled, under a given target.
C6_Witness ==
    /\ ps_pc = "done"
    /\ nlevels = 1
    /\ call.max_length # None
    /\ \E k \in DOMAIN sequences : Len(sequences[k]) > call.max_length[1]
    /\ \E k \in DOMAIN sequences : Len(sequences[k]) < call.max_length[1]
    /\ call.max_length[1] > 0

\* C7: for a non-empty list of non-empty sentences, two-level padding gives
\* every sentence exactly S words and every word exactly W elements, and the
\* length matrix has S entries per sentence: min(len(word j), W) for the
\* sentence's first min(len(sentence), S) words and 0 for the filler.
C7_TwoLevelShape ==
    (/\ ps_pc = "done"
     /\ nlevels = 2
     /\ sequences # <<>>
     /\ \A k \in DOMAIN sequences : sequences[k] # <<>>) =>
        LET W == TargetOf(call.max_length_word,
                          [k \in DOMAIN sequences |->
                              Repeat(0, MaxLenOf(sequences[k]))])
            S == TargetOf(call.max_length, sequences)
        IN  /\ Len(sequence_padded) = Len(sequences)
            /\ Len(sequence_length) = Len(sequences)
            /\ \A k \in DOMAIN sequences :
                  /\ Len(sequence_padded[k]) = S
                  /\ \A j \in 1..S : Len(sequence_padded[k][j]) = W
                  /\ Len(sequence_length[k]) = S
                  /\ \A j \in 1..S :
                        sequence_length[k][j] =
                            IF j <= Min(Len(sequences[k]), S)
                            THEN Min(Len(sequences[k][j]), W)
                            ELSE 0

\* Two sentences of different length, the shorter filled with a filler word
\* of two elements up to the defaulted sentence length.
C7_Witness ==
    /\ ps_pc = "done"
    /\ nlevels = 2
    /\ Len(sequences) = 2
    /\ \A k \in DOMAIN sequences : sequences[k] # <<>>
    /\ Len(sequences[1]) # Len(sequences[2])
    /\ call.max_length = None
    /\ call.max_length_word = Some(2)
    /\ \E k \in DOMAIN sequences : \E j \in DOMAIN sequences[k] : Len(sequences[k][j]) > 0

-----------------------------------------------------------------------------
(* Properties of batch_iter.                                               *)

\* The lists of a list, one after the other.
RECURSIVE Concat(_)
Concat(ss) == IF ss = <<>> THEN <<>> ELSE Head(ss) \o Concat(Tail(ss))

\* A source sentence as a batch holds it.
Batched(x) == IF x[1].chars # None THEN Zip(x) ELSE x

\* C8: N sentences and batch size B give ceil(N/B) batches, each of B elements
\* but the last, which has N - B*floor(N/B) when that is not 0 and B
\* otherwise; batch_x and batch_y of a batch have the same number of
\* elements, and the batches in yield order hold the source's sentences in
\* source order.
C8_BatchCounts ==
    bi_pc = "done" =>
        LET N == Len(dataset)
            B == batch_size
            rest == N - B * (N \div B)
        IN  /\ Len(batches) = (N + B - 1) \div B
            /\ \A k \in 1..(Len(batches) - 1) : Len(batches[k][1]) = B
            /\ N > 0 => Len(batches[Len(batches)][1]) = (IF rest # 0 THEN rest ELSE B)
            /\ \A k \in DOMAIN batches : Len(batches[k][1]) = Len(batches[k][2])
            /\ Concat([k \in DOMAIN batches |-> batches[k][1]])
                  = [k \in 1..N |-> Batched(dataset[k][1])]
            /\ Concat([k \in DOMAIN batches |-> batches[k][2]])
                  = [k \in 1..N |-> dataset[k][2]]

\* Five sentences in batches of two: three batches, the last of one sentence,
\* with a sentence of (char_ids, word) tuples among them.
C8_Witness ==
    /\ bi_pc = "done"
    /\ Len(dataset) = 5
    /\ batch_size = 2
    /\ Len(batches) = 3
    /\ Len(batches[3][1]) = 1
    /\ \E k \in DOMAIN dataset : IsTuple(dataset[k][1][1])

-----------------------------------------------------------------------------
(* Properties of Processor.fit.                                            *)

\* The word fit looks up: lowercased if asked, <NUM> if numeric.
LookedUp == 
    LET l == IF self.lowercase THEN Lower(fit_arg) ELSE fit_arg
    IN  IF is_digit(l) THEN NUM ELSE l

\* C9: a word absent from the vocabulary after lowercasing and numeric
\* replacement makes fit raise when allow_unk is false and return the id of
\* <UNK> as the word id when it is true; a word present then gets its own id,
\* whatever allow_unk is.
C9_UnknownHandling ==
    fit_pc \in {"done", "raised", "keyerror"} =>
        IF LookedUp \in DOMAIN self.word_vocab
        THEN fit_pc = "done" /\ fit_ret.word = self.word_vocab[LookedUp]
        ELSE IF self.allow_unk
        THEN fit_pc = "done" /\ fit_ret.word = self.word_vocab[UNK]
        ELSE fit_pc = "raised"

\* A numeric word under a vocabulary without <NUM>, unknown words allowed:
\* the id of <UNK> comes back with the character ids.
C9_Witness ==
    /\ fit_pc = "done"
    /\ self.allow_unk
    /\ is_digit(fit_arg)
    /\ Len(fit_arg) = 3
    /\ NUM \notin DOMAIN self.word_vocab
    /\ WithChars(self)
    /\ fit_ret.word = self.word_vocab[UNK]

-----------------------------------------------------------------------------
(* Properties of Dataset.__iter__.                                         *)

\* The non-empty runs of token lines that a boundary line follows, in order.
RECURSIVE RunsOf(_, _)
RunsOf(lines, acc) ==
    IF lines = <<>> THEN <<>>
    ELSE IF IsBoundary(Head(lines))
    THEN (IF acc = <<>> THEN <<>> ELSE <<acc>>) \o RunsOf(Tail(lines), <<>>)
    ELSE RunsOf(Tail(lines), Append(acc, Head(lines)))

\* The (words, tags) of a run of token lines.
SentenceOf(run) ==
    <<[k \in DOMAIN run |-> Processed(word_processor, run[k][1]).ret],
      [k \in DOMAIN run |-> Processed(tag_processor, run[k][tag_idx + 1]).ret]>>

\* The runs, cut to the first max_iter of them when max_iter is set.
ExpectedSentences ==
    LET runs == RunsOf(file, <<>>)
        n == IF max_iter = None THEN Len(runs) ELSE Min(max_iter[1], Len(runs))
    IN  [k \in 1..n |-> SentenceOf(runs[k])]

\* C10: a sentence is yielded only on reading a boundary line with at least
\* one token accumulated; an iteration that ends has yielded, in file order,
\* the non-empty runs of token lines followed by a boundary line, cut to the
\* first max_iter; no yielded sentence is empty, its words and tags have equal
\* length, and token lines after the last boundary line are not yielded.
C10_YieldsTerminatedRuns ==
    /\ [](ds_pc = "done" => yielded = ExpectedSentences)
    /\ [](\A k \in DOMAIN yielded :
             Len(yielded[k][1]) > 0 /\ Len(yielded[k][1]) = Len(yielded[k][2]))
    /\ [][yielded' # yielded =>
             /\ ds_k < Len(file)
             /\ IsBoundary(file[ds_k + 1])
             /\ Len(words) > 0
             /\ yielded' = Append(yielded, <<words, ds_tags>>)]_vars

\* The file is read through with processors: one sentence yielded at a
\* -DOCSTART- line, and token lines after it that are never yielded.
C10_Witness ==
    /\ ds_pc = "done"
    /\ ds_k = Len(file)
    /\ Len(yielded) = 1
    /\ Len(words) > 0
    /\ word_processor # None
    /\ \E k \in DOMAIN file : file[k] # <<>> /\ IsBoundary(file[k])

=============================================================================
